---- MODULE Spec2Model ----
(***************************************************************************)
(* Model of the tool-calling agent demo: the two tools (get_user_status,   *)
(* send_user_email) of agent_workflow.py and streamlit_agent_app.py, the   *)
(* mock status service of mockFastAPI.py and the chat shell's run_agent.   *)
(*                                                                         *)
(* A Python str is a sequence of one-character strings, so that prefixes,  *)
(* substrings and the f-string formatting of integers are computed.        *)
(***************************************************************************)
EXTENDS Integers, Sequences, FiniteSets, TLC

VARIABLES
    pc,            \* position of the running tool call
    module,        \* which file's definition of the tools is running
    tool,          \* name of the tool being called
    user_id,       \* argument of get_user_status
    recipient_email, \* argument of send_user_email
    subject,       \* argument of send_user_email
    environ,       \* os.environ: MAILTRAP_HOST / MAILTRAP_LOGIN / MAILTRAP_PASSWORD
    http,          \* the HTTP exchange requests.get performed in this call
    get_count,     \* number of requests.get calls made by this call
    smtp_log,      \* calls the SMTP transport observed in this call, in order
    sent,          \* messages the SMTP server accepted in this call
    pending,       \* exception raised inside the with-block, not yet handled
    message,       \* the MIME message send_user_email constructed
    ret,           \* outcome of the tool call: a returned str or a raised exception
    mock_user_statuses, \* mockFastAPI.mock_user_statuses
    last_request,  \* identifier of the most recent lookup
    last_response, \* response of the most recent lookup
    lookups,       \* number of lookup requests the service has handled
    seen,          \* per identifier, the set of responses lookups have returned
    messages,      \* the agent's conversation state (stream_mode="values")
    stream_pc,     \* position of run_agent / the chat handler
    question,      \* the prompt given to run_agent
    full_response, \* run_agent's local variable
    ui_info,       \* tool names shown by st.info
    final_answer,  \* value returned by run_agent
    session_messages \* st.session_state.messages

toolVars == <<pc, module, tool, user_id, recipient_email, subject, environ, http,
              get_count, smtp_log, sent, pending, message, ret>>
mockVars == <<mock_user_statuses, last_request, last_response, lookups, seen>>
agentVars == <<messages, stream_pc, question, full_response, ui_info,
               final_answer, session_messages>>
vars == <<toolVars, mockVars, agentVars>>

----------------------------------------------------------------------------
(* Bounds *)

MinUserId == 99
MaxUserId == 105
MaxTurns == 4
MaxHistory == 4
MaxLookups == 3

----------------------------------------------------------------------------
(* Python str operations *)

DigitChars == <<"0", "1", "2", "3", "4", "5", "6", "7", "8", "9">>

RECURSIVE NatStr(_)
NatStr(n) == IF n < 10 THEN <<DigitChars[n + 1]>>
             ELSE NatStr(n \div 10) \o <<DigitChars[(n % 10) + 1]>>

\* format an int inside an f-string: str(n)
Str(n) == IF n < 0 THEN <<"-">> \o NatStr(0 - n) ELSE NatStr(n)

DigitVal(c) == CHOOSE d \in 0..9 : DigitChars[d + 1] = c

RECURSIVE ParseNat(_)
ParseNat(s) == IF Len(s) = 1 THEN DigitVal(s[1])
               ELSE 10 * ParseNat(SubSeq(s, 1, Len(s) - 1)) + DigitVal(s[Len(s)])

\* conversion of the {user_id} path segment to the handler's int parameter
ParseInt(s) == IF s[1] = "-" THEN 0 - ParseNat(Tail(s)) ELSE ParseNat(s)

StartsWith(s, p) == Len(s) >= Len(p) /\ SubSeq(s, 1, Len(p)) = p

Contains(s, sub) == \E i \in 0..(Len(s) - Len(sub)) : SubSeq(s, i + 1, i + Len(sub)) = sub

----------------------------------------------------------------------------
(* JSON values and Python's rendering of them *)

JStr(s) == [t |-> "str", s |-> s, n |-> 0]
JInt(n) == [t |-> "int", s |-> <<>>, n |-> n]
JNull == [t |-> "null", s |-> <<>>, n |-> 0]

\* str(v) as an f-string replacement field applies it
PyStr(v) == CASE v.t = "str" -> v.s
              [] v.t = "int" -> Str(v.n)
              [] v.t = "null" -> <<"N", "o", "n", "e">>

EmptyObject == [k \in {} |-> JNull]

\* dict.get(key, default)
DictGet(data, key, default) == IF key \in DOMAIN data THEN data[key] ELSE default

----------------------------------------------------------------------------
(* Configuration *)

API_BASE_URL == <<"h", "t", "t", "p", ":", "/", "/", "1", "2", "7", ".", "0", ".", "0", ".", "1", ":", "8", "0", "0", "1">>
SENDER_EMAIL == <<"y", "o", "u", "r", "-", "s", "u", "p", "p", "o", "r", "t", "@", "e", "x", "a", "m", "p", "l", "e", ".", "c", "o", "m">>
\* the tools are defined twice, with different message texts
Modules == {"agent_workflow", "streamlit_agent_app"}

----------------------------------------------------------------------------
(* Outcome of a tool call *)

Returned(s) == [kind |-> "return", value |-> s, exc |-> "none"]
Raised(cls) == [kind |-> "raise", value |-> <<>>, exc |-> cls]
NoResult == [kind |-> "none", value |-> <<>>, exc |-> "none"]

----------------------------------------------------------------------------
(* Tool 1: get_user_status *)

\* f"{API_BASE_URL}/users/{user_id}/status"
Endpoint(id) == API_BASE_URL \o <<"/", "u", "s", "e", "r", "s", "/">> \o Str(id) \o <<"/", "s", "t", "a", "t", "u", "s">>

\* An HTTP exchange as requests.get sees it: a transport failure, or a final
\* response with a status code and a body.  parse is what response.json()
\* makes of the body.
TransportFailure(cls, text) ==
    [kind |-> cls, text |-> text, status |-> 0, parse |-> "none", obj |-> EmptyObject]
Response(status, parse, obj) ==
    [kind |-> "response", text |-> <<>>, status |-> status, parse |-> parse, obj |-> obj]
NoExchange == [kind |-> "none", text |-> <<>>, status |-> 0, parse |-> "none", obj |-> EmptyObject]

ReasonPhrase(status) == CASE status = 404 -> <<"N", "o", "t", " ", "F", "o", "u", "n", "d">>
                          [] status = 503 -> <<"S", "e", "r", "v", "i", "c", "e", " ", "U", "n", "a", "v", "a", "i", "l", "a", "b", "l", "e">>
                          [] OTHER -> <<"E", "r", "r", "o", "r">>

\* str(e) of the HTTPError that Response.raise_for_status raises
HTTPErrorText(status, url) ==
    Str(status)
      \o (IF status < 500 THEN <<" ", "C", "l", "i", "e", "n", "t", " ", "E", "r", "r", "o", "r", ":", " ">> ELSE <<" ", "S", "e", "r", "v", "e", "r", " ", "E", "r", "r", "o", "r", ":", " ">>)
      \o ReasonPhrase(status) \o <<" ", "f", "o", "r", " ", "u", "r", "l", ":", " ">> \o url

RaisesForStatus_ClientOnly(status) == 400 <= status /\ status < 500

\* Response.raise_for_status raises HTTPError for 400 <= status_code < 600
RaisesForStatus(status) == 400 <= status /\ status < 600

\* response.json() on a body that is not JSON raises
\* requests.exceptions.JSONDecodeError, a RequestException
JSONDecodeErrorText == <<"E", "x", "p", "e", "c", "t", "i", "n", "g", " ", "v", "a", "l", "u", "e", ":", " ", "l", "i", "n", "e", " ", "1", " ", "c", "o", "l", "u", "m", "n", " ", "1", " ", "(", "c", "h", "a", "r", " ", "0", ")">>

StatusErrorPrefix(m) ==
    IF m = "agent_workflow"
    THEN <<"E", "R", "R", "O", "R", ":", " ", "F", "a", "i", "l", "e", "d", " ", "t", "o", " ", "c", "o", "n", "n", "e", "c", "t", " ", "t", "o", " ", "A", "P", "I", " ", "o", "r", " ", "r", "e", "t", "r", "i", "e", "v", "e", " ", "s", "t", "a", "t", "u", "s", ".", " ", "D", "e", "t", "a", "i", "l", "s", ":", " ">>
    ELSE <<"E", "R", "R", "O", "R", ":", " ", "F", "a", "i", "l", "e", "d", " ", "t", "o", " ", "c", "o", "n", "n", "e", "c", "t", " ", "t", "o", " ", "A", "P", "I", " ", "o", "n", " ", "p", "o", "r", "t", " ", "8", "0", "0", "1", ".", " ", "D", "e", "t", "a", "i", "l", "s", ":", " ">>

\* f"User {user_id} Status: {data.get('app_status', 'Status Unknown')}"
FormatStatus(id, data) ==
    <<"U", "s", "e", "r", " ">> \o Str(id) \o <<" ", "S", "t", "a", "t", "u", "s", ":", " ">>
      \o PyStr(DictGet(data, "app_status", JStr(<<"S", "t", "a", "t", "u", "s", " ", "U", "n", "k", "n", "o", "w", "n">>)))

\* get_user_status without the raise_for_status() call
get_user_status_NoRaise(m, id, x) ==
    IF x.kind # "response"
    THEN Returned(StatusErrorPrefix(m) \o x.text)
    ELSE IF x.parse = "invalid"
    THEN Returned(StatusErrorPrefix(m) \o JSONDecodeErrorText)
    ELSE IF x.parse # "object"
    THEN Raised("AttributeError")
    ELSE Returned(FormatStatus(id, x.obj))

\* The body of get_user_status, given the exchange requests.get performs.
\* data.get on a parsed body that is not a dict raises AttributeError, which
\* the except clause (RequestException) does not catch.
get_user_status(m, id, x) ==
    IF x.kind # "response"
    THEN Returned(StatusErrorPrefix(m) \o x.text)
    ELSE IF RaisesForStatus(x.status)
    THEN Returned(StatusErrorPrefix(m) \o HTTPErrorText(x.status, Endpoint(id)))
    ELSE IF x.parse = "invalid"
    THEN Returned(StatusErrorPrefix(m) \o JSONDecodeErrorText)
    ELSE IF x.parse # "object"
    THEN Raised("AttributeError")
    ELSE Returned(FormatStatus(id, x.obj))

\* Inputs of the model
UserIds == (MinUserId..MaxUserId) \cup {0 - 7, 0, 999}
HttpStatuses == {200, 201, 300, 404, 503}
JsonObjects == { EmptyObject,
                 [app_status |-> JStr(<<"A", "c", "t", "i", "v", "e">>)],
                 [app_status |-> JStr(<<"E", "R", "R", "O", "R", ":">>)],
                 [app_status |-> JInt(7)],
                 [app_status |-> JNull],
                 [message |-> JStr(<<"o", "k">>)] }
Exchanges ==
    { TransportFailure("ConnectionError", <<"C", "o", "n", "n", "e", "c", "t", "i", "o", "n", " ", "r", "e", "f", "u", "s", "e", "d">>),
      TransportFailure("Timeout", <<"R", "e", "a", "d", " ", "t", "i", "m", "e", "d", " ", "o", "u", "t", ".">>) }
    \cup { Response(st, "object", o) : st \in HttpStatuses, o \in JsonObjects }
    \cup { Response(st, p, EmptyObject) : st \in HttpStatuses, p \in {"invalid", "array", "string"} }

----------------------------------------------------------------------------
(* Tool 2: send_user_email *)

None == [isNone |-> TRUE, v |-> <<>>]
Some(s) == [isNone |-> FALSE, v |-> s]
\* Python truthiness of an os.getenv result
Truthy(o) == ~o.isNone /\ o.v # <<>>

EnvValues == {None, Some(<<>>), Some(<<"x">>)}
Environs == [MAILTRAP_HOST : EnvValues, MAILTRAP_LOGIN : EnvValues, MAILTRAP_PASSWORD : EnvValues]

CredentialsMissing_And(login, password) == ~Truthy(login) /\ ~Truthy(password)

\* if not login or not password
CredentialsMissing(login, password) == ~Truthy(login) \/ ~Truthy(password)

MissingCredentialsMsg_NoMarker(m) ==
    <<"M", "a", "i", "l", "t", "r", "a", "p", " ", "c", "r", "e", "d", "e", "n", "t", "i", "a", "l", "s", " ", "a", "r", "e", " ", "n", "o", "t", " ", "s", "e", "t", " ", "(", "c", "h", "e", "c", "k", " ", "e", "n", "v", "i", "r", "o", "n", "m", "e", "n", "t", " ", "v", "a", "r", "i", "a", "b", "l", "e", "s", ")", ".">>

MissingCredentialsMsg(m) ==
    IF m = "agent_workflow"
    THEN <<"E", "R", "R", "O", "R", ":", " ", "M", "a", "i", "l", "t", "r", "a", "p", " ", "c", "r", "e", "d", "e", "n", "t", "i", "a", "l", "s", " ", "(", "M", "A", "I", "L", "T", "R", "A", "P", "_", "H", "O", "S", "T", "/", "L", "O", "G", "I", "N", "/", "P", "A", "S", "S", "W", "O", "R", "D", ")", " ", "a", "r", "e", " ", "n", "o", "t", " ", "s", "e", "t", " ", "i", "n", " ", "e", "n", "v", "i", "r", "o", "n", "m", "e", "n", "t", " ", "v", "a", "r", "i", "a", "b", "l", "e", "s", ".">>
    ELSE <<"E", "R", "R", "O", "R", ":", " ", "M", "a", "i", "l", "t", "r", "a", "p", " ", "c", "r", "e", "d", "e", "n", "t", "i", "a", "l", "s", " ", "a", "r", "e", " ", "n", "o", "t", " ", "s", "e", "t", " ", "(", "c", "h", "e", "c", "k", " ", "e", "n", "v", "i", "r", "o", "n", "m", "e", "n", "t", " ", "v", "a", "r", "i", "a", "b", "l", "e", "s", ")", ".">>

SuccessMsg(m, recipient, subj) ==
    IF m = "agent_workflow"
    THEN <<"S", "U", "C", "C", "E", "S", "S", ":", " ", "R", "e", "a", "l", " ", "e", "m", "a", "i", "l", " ", "s", "e", "n", "t", " ", "t", "o", " ">> \o recipient \o <<" ", "w", "i", "t", "h", " ", "s", "u", "b", "j", "e", "c", "t", " ", "'">> \o subj
           \o <<"'", " ", "v", "i", "a", " ", "M", "a", "i", "l", "t", "r", "a", "p", ".", " ", "C", "h", "e", "c", "k", " ", "y", "o", "u", "r", " ", "M", "a", "i", "l", "t", "r", "a", "p", " ", "S", "a", "n", "d", "b", "o", "x", " ", "i", "n", "b", "o", "x", ".">>
    ELSE <<"S", "U", "C", "C", "E", "S", "S", ":", " ", "R", "e", "a", "l", " ", "e", "m", "a", "i", "l", " ", "s", "e", "n", "t", " ", "t", "o", " ">> \o recipient
           \o <<" ", "v", "i", "a", " ", "M", "a", "i", "l", "t", "r", "a", "p", ".", " ", "C", "h", "e", "c", "k", " ", "y", "o", "u", "r", " ", "M", "a", "i", "l", "t", "r", "a", "p", " ", "S", "a", "n", "d", "b", "o", "x", " ", "i", "n", "b", "o", "x", ".">>

SMTPErrorMsg(m, text) ==
    IF m = "agent_workflow"
    THEN <<"E", "R", "R", "O", "R", ":", " ", "S", "M", "T", "P", " ", "f", "a", "i", "l", "e", "d", " ", "t", "o", " ", "s", "e", "n", "d", " ", "e", "m", "a", "i", "l", ".", " ", "C", "h", "e", "c", "k", " ", "M", "a", "i", "l", "t", "r", "a", "p", " ", "c", "r", "e", "d", "e", "n", "t", "i", "a", "l", "s", ",", " ", "S", "E", "N", "D", "E", "R", "_", "E", "M", "A", "I", "L", ",", " ", "a", "n", "d", " ", "n", "e", "t", "w", "o", "r", "k", ".", " ", "D", "e", "t", "a", "i", "l", "s", ":", " ">> \o text
    ELSE <<"E", "R", "R", "O", "R", ":", " ", "S", "M", "T", "P", " ", "f", "a", "i", "l", "e", "d", " ", "t", "o", " ", "s", "e", "n", "d", " ", "e", "m", "a", "i", "l", ".", " ", "C", "h", "e", "c", "k", " ", "M", "a", "i", "l", "t", "r", "a", "p", " ", "s", "e", "t", "t", "i", "n", "g", "s", "/", "s", "e", "n", "d", "e", "r", " ", "e", "m", "a", "i", "l", ".", " ", "D", "e", "t", "a", "i", "l", "s", ":", " ">> \o text

GeneralErrorMsg(m, text) == <<"E", "R", "R", "O", "R", ":", " ", "G", "e", "n", "e", "r", "a", "l", " ", "e", "r", "r", "o", "r", " ", "d", "u", "r", "i", "n", "g", " ", "e", "m", "a", "i", "l", " ", "s", "e", "n", "d", "i", "n", "g", ".", " ", "D", "e", "t", "a", "i", "l", "s", ":", " ">> \o text

NoException == [cls |-> "none", text |-> <<>>]
Exc(cls, text) == [cls |-> cls, text |-> text]

\* the except clauses of the try statement, applied to the exception that
\* left the with-statement (none: the return after the with-block)
EmailResult(m, recipient, subj, e) ==
    CASE e.cls = "none" -> Returned(SuccessMsg(m, recipient, subj))
      [] e.cls = "SMTPException" -> Returned(SMTPErrorMsg(m, e.text))
      [] OTHER -> Returned(GeneralErrorMsg(m, e.text))

NoMessage == [Subject |-> <<>>, From |-> <<>>, To |-> <<>>, payload |-> <<>>]
\* MIMEMultipart("alternative") with its headers and the plain-text part
BuildMessage(recipient, subj, body) ==
    [Subject |-> subj, From |-> SENDER_EMAIL, To |-> recipient, payload |-> body]

Recipients == {<<"a", "@", "b", ".", "c">>, <<>>}
Subjects == {<<"H", "i">>, <<"E", "R", "R", "O", "R", ":">>}
Bodies == {<<"t", "e", "x", "t">>}
StepOutcomes == {"ok", "SMTPException", "Exception"}
ExcTexts == {<<>>, <<"(", "5", "3", "5", ",", " ", "b", "'", "5", ".", "7", ".", "0", " ", "I", "n", "v", "a", "l", "i", "d", " ", "l", "o", "g", "i", "n", "'", ")">>}

----------------------------------------------------------------------------
(* Mock status service (mockFastAPI.py) *)

StartupTable == (101 :> <<"A", "c", "t", "i", "v", "e">>) @@ (102 :> <<"I", "n", "a", "c", "t", "i", "v", "e">>)
                  @@ (103 :> <<"P", "e", "n", "d", "i", "n", "g", "_", "A", "p", "p", "r", "o", "v", "a", "l">>) @@ (104 :> <<"S", "u", "s", "p", "e", "n", "d", "e", "d">>)

\* the handler written with mock_user_statuses.get(user_id, "Status Unknown")
get_user_app_status_Default(table, id) ==
    [status_code |-> 200,
     obj |-> [user_id |-> JInt(id),
              app_status |-> JStr(IF id \in DOMAIN table THEN table[id] ELSE <<"S", "t", "a", "t", "u", "s", " ", "U", "n", "k", "n", "o", "w", "n">>),
              message |-> JStr(<<"S", "t", "a", "t", "u", "s", " ", "r", "e", "t", "r", "i", "e", "v", "e", "d", " ", "s", "u", "c", "c", "e", "s", "s", "f", "u", "l", "l", "y", " ", "f", "o", "r", " ", "u", "s", "e", "r", " ">>
                                 \o Str(id) \o <<".">>)]]

\* The handler of GET /users/{user_id}/status.  An HTTPException(404, detail)
\* is rendered by the framework as status 404 with body {"detail": detail}.
get_user_app_status(table, id) ==
    IF id \notin DOMAIN table
    THEN [status_code |-> 404,
          obj |-> [detail |-> JStr(<<"U", "s", "e", "r", " ", "w", "i", "t", "h", " ", "I", "D", " ">> \o Str(id) \o <<" ", "n", "o", "t", " ", "f", "o", "u", "n", "d", ".">>)]]
    ELSE [status_code |-> 200,
          obj |-> [user_id |-> JInt(id),
                   app_status |-> JStr(table[id]),
                   message |-> JStr(<<"S", "t", "a", "t", "u", "s", " ", "r", "e", "t", "r", "i", "e", "v", "e", "d", " ", "s", "u", "c", "c", "e", "s", "s", "f", "u", "l", "l", "y", " ", "f", "o", "r", " ", "u", "s", "e", "r", " ">>
                                      \o Str(id) \o <<".">>)]]

NoResponse == [status_code |-> 0, obj |-> EmptyObject]

\* the {user_id} segment of a request URL matched by "/users/{user_id}/status"
PathParam(url) ==
    SubSeq(url, Len(API_BASE_URL) + Len(<<"/", "u", "s", "e", "r", "s", "/">>) + 1, Len(url) - Len(<<"/", "s", "t", "a", "t", "u", "s">>))

\* the exchange requests.get(url) performs when the service is the mock
ServiceExchange(table, url) ==
    LET r == get_user_app_status(table, ParseInt(PathParam(url)))
    IN Response(r.status_code, "object", r.obj)

----------------------------------------------------------------------------
(* State of an idle component *)

CallIdle ==
    /\ pc = "idle" /\ module = "agent_workflow" /\ tool = "none"
    /\ user_id = 0 /\ recipient_email = <<>> /\ subject = <<>>
    /\ http = NoExchange /\ get_count = 0 /\ smtp_log = <<>> /\ sent = 0
    /\ pending = NoException /\ message = NoMessage /\ ret = NoResult

ToolInit == CallIdle /\ environ \in Environs

MockInit ==
    /\ mock_user_statuses = StartupTable
    /\ last_request = 0
    /\ last_response = NoResponse
    /\ lookups = 0
    /\ seen = [id \in UserIds |-> {}]

AgentInit ==
    /\ messages = <<>> /\ stream_pc = "idle" /\ question = <<>>
    /\ full_response = <<>> /\ ui_info = <<>> /\ final_answer = <<>>
    /\ session_messages = <<>>

----------------------------------------------------------------------------
(* Tool calls *)

\* get_user_status(user_id), the service being any HTTP server
GetUserStatus ==
    \E m \in Modules, id \in UserIds, x \in Exchanges :
        /\ pc = "idle"
        /\ module' = m /\ tool' = "get_user_status" /\ user_id' = id
        /\ http' = x
        /\ get_count' = 1
        /\ ret' = get_user_status(m, id, x)
        /\ pc' = "returned"
        /\ UNCHANGED <<recipient_email, subject, environ, smtp_log, sent, pending, message>>
        /\ UNCHANGED <<mockVars, agentVars>>

\* send_user_email up to the try statement: credentials check and message
SendUserEmail ==
    \E m \in Modules, r \in Recipients, s \in Subjects, b \in Bodies :
        /\ pc = "idle"
        /\ module' = m /\ tool' = "send_user_email"
        /\ recipient_email' = r /\ subject' = s
        /\ IF CredentialsMissing(environ.MAILTRAP_LOGIN, environ.MAILTRAP_PASSWORD)
           THEN /\ ret' = Returned(MissingCredentialsMsg(m))
                /\ pc' = "returned"
                /\ UNCHANGED message
           ELSE /\ message' = BuildMessage(r, s, b)
                /\ pc' = "ssl_context"
                /\ UNCHANGED ret
        /\ UNCHANGED <<user_id, environ, http, get_count, smtp_log, sent, pending>>
        /\ UNCHANGED <<mockVars, agentVars>>

\* an exception that reaches the except clauses: the tool returns its message
Fail(e) ==
    /\ ret' = EmailResult(module, recipient_email, subject, e)
    /\ pc' = "returned"

\* ssl.create_default_context()
CreateContext ==
    \E o \in {"ok", "Exception"}, t \in ExcTexts :
        /\ pc = "ssl_context"
        /\ IF o = "ok" THEN pc' = "smtp_connect" /\ UNCHANGED ret
                       ELSE Fail(Exc(o, t))
        /\ UNCHANGED <<module, tool, user_id, recipient_email, subject, environ, http,
                       get_count, smtp_log, sent, pending, message>>
        /\ UNCHANGED <<mockVars, agentVars>>

LogEntry(op, ok) == [op |-> op, ok |-> ok]

\* smtplib.SMTP(smtp_server, port): connects only when the host is non-empty;
\* the with-block is entered only if the constructor returns
SmtpConnect ==
    \E o \in StepOutcomes, t \in ExcTexts :
        /\ pc = "smtp_connect"
        /\ IF o = "ok" \/ ~Truthy(environ.MAILTRAP_HOST)
           THEN /\ smtp_log' = Append(smtp_log, LogEntry("SMTP", TRUE))
                /\ pc' = "starttls"
                /\ UNCHANGED ret
           ELSE /\ smtp_log' = Append(smtp_log, LogEntry("SMTP", FALSE))
                /\ Fail(Exc(o, t))
        /\ UNCHANGED <<module, tool, user_id, recipient_email, subject, environ, http,
                       get_count, sent, pending, message>>
        /\ UNCHANGED <<mockVars, agentVars>>

\* the session used without a with-statement: an exception inside the block
\* reaches the except clauses with the session still open
SessionStep_NoRelease(at, op, next) ==
    \E o \in StepOutcomes, t \in ExcTexts :
        /\ pc = at
        /\ LET out == IF Truthy(environ.MAILTRAP_HOST) THEN o ELSE "SMTPException"
           IN /\ smtp_log' = Append(smtp_log, LogEntry(op, out = "ok"))
              /\ IF out = "ok"
                 THEN /\ pc' = next
                      /\ UNCHANGED <<pending, ret>>
                      /\ sent' = IF op = "sendmail" THEN sent + 1 ELSE sent
                 ELSE /\ Fail(Exc(out, t))
                      /\ UNCHANGED <<pending, sent>>
        /\ UNCHANGED <<module, tool, user_id, recipient_email, subject, environ, http,
                       get_count, message>>
        /\ UNCHANGED <<mockVars, agentVars>>

\* a call on the session inside the with-block: on an exception control
\* leaves the block through __exit__
SessionStep(at, op, next) ==
    \E o \in StepOutcomes, t \in ExcTexts :
        /\ pc = at
        /\ LET out == IF Truthy(environ.MAILTRAP_HOST) THEN o ELSE "SMTPException"
           IN /\ smtp_log' = Append(smtp_log, LogEntry(op, out = "ok"))
              /\ IF out = "ok"
                 THEN /\ pc' = next
                      /\ UNCHANGED pending
                      /\ sent' = IF op = "sendmail" THEN sent + 1 ELSE sent
                 ELSE /\ pc' = "exit"
                      /\ pending' = Exc(out, t)
                      /\ UNCHANGED sent
        /\ UNCHANGED <<module, tool, user_id, recipient_email, subject, environ, http,
                       get_count, message, ret>>
        /\ UNCHANGED <<mockVars, agentVars>>

StartTLS == SessionStep("starttls", "starttls", "login")
Login == SessionStep("login", "login", "sendmail")
Sendmail == SessionStep("sendmail", "sendmail", "exit")

\* SMTP.__exit__: QUIT, then close() in a finally clause.  An exception of
\* __exit__ replaces the pending one; otherwise the pending one propagates.
SmtpExit ==
    \E o \in StepOutcomes, t \in ExcTexts :
        /\ pc = "exit"
        /\ LET out == IF Truthy(environ.MAILTRAP_HOST) THEN o ELSE "ok"
           IN /\ smtp_log' = Append(smtp_log, LogEntry("close", out = "ok"))
              /\ Fail(IF out = "ok" THEN pending ELSE Exc(out, t))
        /\ pending' = NoException
        /\ UNCHANGED <<module, tool, user_id, recipient_email, subject, environ, http,
                       get_count, sent, message>>
        /\ UNCHANGED <<mockVars, agentVars>>

\* the result is handed to the caller; the call's locals are gone
Return ==
    /\ pc = "returned"
    /\ pc' = "idle" /\ module' = "agent_workflow" /\ tool' = "none"
    /\ user_id' = 0 /\ recipient_email' = <<>> /\ subject' = <<>>
    /\ http' = NoExchange /\ get_count' = 0 /\ smtp_log' = <<>> /\ sent' = 0
    /\ pending' = NoException /\ message' = NoMessage /\ ret' = NoResult
    /\ UNCHANGED environ
    /\ UNCHANGED <<mockVars, agentVars>>

Next ==
    \/ GetUserStatus
    \/ SendUserEmail
    \/ CreateContext
    \/ SmtpConnect
    \/ StartTLS
    \/ Login
    \/ Sendmail
    \/ SmtpExit
    \/ Return

Init == ToolInit /\ MockInit /\ AgentInit
Spec == Init /\ [][Next]_vars

----------------------------------------------------------------------------
(* The mock status service serving lookups, and the status tool run against it *)

Record(sn, id, r) == [sn EXCEPT ![id] = @ \cup {r}]

\* a service that drops an entry once it has been read
Lookup_Evicting ==
    \E id \in UserIds :
        /\ lookups < MaxLookups
        /\ lookups' = lookups + 1
        /\ last_request' = id
        /\ last_response' = get_user_app_status(mock_user_statuses, id)
        /\ seen' = Record(seen, id, get_user_app_status(mock_user_statuses, id))
        /\ mock_user_statuses' = [k \in DOMAIN mock_user_statuses \ {id} |-> mock_user_statuses[k]]
        /\ UNCHANGED <<toolVars, agentVars>>

\* one GET /users/{id}/status request handled by the service
Lookup ==
    \E id \in UserIds :
        /\ lookups < MaxLookups
        /\ lookups' = lookups + 1
        /\ last_request' = id
        /\ last_response' = get_user_app_status(mock_user_statuses, id)
        /\ seen' = Record(seen, id, get_user_app_status(mock_user_statuses, id))
        /\ UNCHANGED mock_user_statuses
        /\ UNCHANGED <<toolVars, agentVars>>

\* get_user_status(user_id) with the mock service answering its request
StatusViaMock ==
    \E m \in Modules, id \in UserIds :
        LET url == Endpoint(id)
            rid == ParseInt(PathParam(url))
            r == get_user_app_status(mock_user_statuses, rid)
        IN /\ pc = "idle"
           /\ lookups < MaxLookups
           /\ lookups' = lookups + 1
           /\ last_request' = rid
           /\ last_response' = r
           /\ seen' = Record(seen, rid, r)
           /\ UNCHANGED mock_user_statuses
           /\ module' = m /\ tool' = "get_user_status" /\ user_id' = id
           /\ http' = ServiceExchange(mock_user_statuses, url)
           /\ get_count' = 1
           /\ ret' = get_user_status(m, id, ServiceExchange(mock_user_statuses, url))
           /\ pc' = "returned"
           /\ UNCHANGED <<recipient_email, subject, environ, smtp_log, sent, pending, message>>
           /\ UNCHANGED agentVars

MockSpecInit ==
    /\ CallIdle
    /\ environ = [MAILTRAP_HOST |-> None, MAILTRAP_LOGIN |-> None, MAILTRAP_PASSWORD |-> None]
    /\ MockInit
    /\ AgentInit
MockNext == Lookup \/ StatusViaMock \/ Return
MockSpec == MockSpecInit /\ [][MockNext]_vars

----------------------------------------------------------------------------
(* The chat shell: run_agent and the chat-input handler *)

Human(c) == [type |-> "human", content |-> c, tool_calls |-> <<>>]
AI(c, calls) == [type |-> "ai", content |-> c, tool_calls |-> calls]
ToolMessage(c) == [type |-> "tool", content |-> c, tool_calls |-> <<>>]

Questions == {<<"s", "t", "a", "t", "u", "s", " ", "o", "f", " ", "1", "0", "1", "?">>}
FinalContents == {<<>>, <<"U", "s", "e", "r", " ", "1", "0", "1", " ", "i", "s", " ", "A", "c", "t", "i", "v", "e", ".">>}
CallContents == {<<>>, <<"C", "h", "e", "c", "k", "i", "n", "g", ".">>}
ToolNames == {"get_user_status", "send_user_email"}
ToolOutputs == { FormatStatus(101, [app_status |-> JStr(<<"A", "c", "t", "i", "v", "e">>)]),
                 MissingCredentialsMsg("streamlit_agent_app") }

\* Messages the agent runtime may add to the conversation next: the model's
\* turn after a human or tool turn, the tool turn after a tool-call request.
NextMessages(msgs) ==
    LET last == msgs[Len(msgs)]
    IN IF last.type = "ai"
       THEN IF last.tool_calls # <<>> THEN { ToolMessage(c) : c \in ToolOutputs } ELSE {}
       ELSE { AI(c, <<>>) : c \in FinalContents }
              \cup (IF Len(msgs) + 3 <= MaxTurns
                    THEN { AI(c, <<n>>) : c \in CallContents, n \in ToolNames }
                    ELSE {})

\* one iteration of the for-loop of run_agent on the chunk whose messages
\* are msgs: the new value of full_response
UpdateResponse(fr, msgs) ==
    IF msgs # <<>> /\ msgs[Len(msgs)].content # <<>>
    THEN msgs[Len(msgs)].content
    ELSE fr

\* the st.info line of that iteration
UpdateInfo(info, msgs) ==
    IF msgs # <<>> /\ msgs[Len(msgs)].content = <<>> /\ msgs[Len(msgs)].tool_calls # <<>>
    THEN Append(info, msgs[Len(msgs)].tool_calls[1])
    ELSE info

\* the chat handler up to the first streamed state: the prompt is stored in
\* the history, run_agent starts and receives the input state
ChatInput ==
    \E q \in Questions :
        /\ stream_pc \in {"idle", "done"}
        /\ Len(session_messages) + 2 <= MaxHistory
        /\ session_messages' = Append(session_messages, [role |-> "user", content |-> q])
        /\ question' = q
        /\ messages' = <<Human(q)>>
        /\ full_response' = UpdateResponse(<<>>, <<Human(q)>>)
        /\ ui_info' = UpdateInfo(<<>>, <<Human(q)>>)
        /\ final_answer' = <<>>
        /\ stream_pc' = "streaming"
        /\ UNCHANGED <<toolVars, mockVars>>

\* the stream yields the next state and the loop body handles it
StreamChunk ==
    /\ stream_pc = "streaming"
    /\ \E msg \in NextMessages(messages) :
        /\ messages' = Append(messages, msg)
        /\ full_response' = UpdateResponse(full_response, Append(messages, msg))
        /\ ui_info' = UpdateInfo(ui_info, Append(messages, msg))
        /\ UNCHANGED <<stream_pc, question, final_answer, session_messages>>
        /\ UNCHANGED <<toolVars, mockVars>>

\* the stream is exhausted: run_agent returns full_response and the handler
\* stores it as the assistant's turn
StreamEnd ==
    /\ stream_pc = "streaming"
    /\ NextMessages(messages) = {}
    /\ final_answer' = full_response
    /\ session_messages' = Append(session_messages,
                                  [role |-> "assistant", content |-> full_response])
    /\ stream_pc' = "done"
    /\ UNCHANGED <<messages, question, full_response, ui_info>>
    /\ UNCHANGED <<toolVars, mockVars>>

AgentSpecInit ==
    /\ CallIdle
    /\ environ = [MAILTRAP_HOST |-> None, MAILTRAP_LOGIN |-> None, MAILTRAP_PASSWORD |-> None]
    /\ MockInit
    /\ AgentInit
AgentNext == ChatInput \/ StreamChunk \/ StreamEnd
AgentSpec == AgentSpecInit /\ [][AgentNext]_vars

----------------------------------------------------------------------------
(* Properties *)

ERROR_MARK == <<"E", "R", "R", "O", "R", ":">>
SUCCESS_MARK == <<"S", "U", "C", "C", "E", "S", "S", ":">>
IsError(r) == r.kind = "return" /\ StartsWith(r.value, ERROR_MARK)
IsSuccess(r) == r.kind = "return" /\ StartsWith(r.value, SUCCESS_MARK)

\* C1 (as stated): every string a tool returns begins with "ERROR:" or
\* "SUCCESS:".
C1_EveryResultMarked ==
    ret.kind = "return" => (IsError(ret) \/ IsSuccess(ret))

\* C1 (amended): every string send_user_email returns begins with "ERROR:"
\* or "SUCCESS:"; every string get_user_status returns begins with "ERROR:"
\* or, on its success path, with "User " (it carries no "SUCCESS:" marker).
C1_ResultPrefixes ==
    ret.kind = "return" =>
        /\ tool = "send_user_email" => (IsError(ret) \/ IsSuccess(ret))
        /\ tool = "get_user_status" => (IsError(ret) \/ StartsWith(ret.value, <<"U", "s", "e", "r", " ">>))

C1_Witness ==
    /\ tool = "get_user_status" /\ pc = "returned"
    /\ ret.kind = "return" /\ StartsWith(ret.value, <<"U", "s", "e", "r", " ">>)

\* C2: for every outcome of the HTTP exchange and of the SMTP exchange a tool
\* returns a string and never raises to its caller.
C2_NeverRaises == ret.kind # "raise"

Absent(o) == o.isNone \/ Len(o.v) = 0

\* C3: with the login or the password absent or empty, send_user_email
\* returns an "ERROR:" string and the SMTP transport observes no call at all.
C3_NoNetworkWithoutCredentials ==
    (tool = "send_user_email"
       /\ (Absent(environ.MAILTRAP_LOGIN) \/ Absent(environ.MAILTRAP_PASSWORD)))
    => (pc = "returned" /\ IsError(ret) /\ smtp_log = <<>> /\ sent = 0)

C3_Witness ==
    /\ tool = "send_user_email" /\ pc = "returned"
    /\ ~Absent(environ.MAILTRAP_LOGIN) /\ Absent(environ.MAILTRAP_PASSWORD)
    /\ ~Absent(environ.MAILTRAP_HOST)

Ops(log) == [i \in 1..Len(log) |-> log[i].op]
Calls(log, op, ok) == Cardinality({i \in 1..Len(log) : log[i].op = op /\ log[i].ok = ok})
Closes(log) == Cardinality({i \in 1..Len(log) : log[i].op = "close"})
AllOk(log) == \A i \in 1..Len(log) : log[i].ok

\* C4: with credentials present and every transport call succeeding,
\* send_user_email returns a success result after exactly one open, one
\* login, one send and one close, in that order; on every exit path a session
\* that was opened has been closed exactly once when the tool returns, and
\* never before it was opened or more than once.
C4_SessionReleased ==
    tool = "send_user_email" =>
        /\ Calls(smtp_log, "SMTP", TRUE) <= 1
        /\ Closes(smtp_log) <= Calls(smtp_log, "SMTP", TRUE)
        /\ Closes(smtp_log) = 1 => smtp_log[Len(smtp_log)].op = "close"
        /\ pc = "returned" => Closes(smtp_log) = Calls(smtp_log, "SMTP", TRUE)
        /\ (pc = "returned" /\ smtp_log # <<>> /\ AllOk(smtp_log)) =>
              /\ IsSuccess(ret)
              /\ Ops(smtp_log) = <<"SMTP", "starttls", "login", "sendmail", "close">>

C4_Witness ==
    /\ tool = "send_user_email" /\ pc = "returned"
    /\ ~Absent(environ.MAILTRAP_LOGIN) /\ ~Absent(environ.MAILTRAP_PASSWORD)
    /\ Len(smtp_log) = 5 /\ AllOk(smtp_log) /\ sent = 1
    /\ IsSuccess(ret)

\* C5: a send_user_email call that returns "SUCCESS:" handed exactly one
\* message to the SMTP server, and one that returns "ERROR:" handed none.
C5_Atomic ==
    (tool = "send_user_email" /\ pc = "returned") =>
        /\ IsSuccess(ret) => sent = 1
        /\ IsError(ret) => sent = 0

ExpectedStatusText(x) ==
    IF "app_status" \in DOMAIN x.obj THEN PyStr(x.obj.app_status) ELSE <<"S", "t", "a", "t", "u", "s", " ", "U", "n", "k", "n", "o", "w", "n">>

StatusResultOk(failed) ==
    (tool = "get_user_status" /\ pc = "returned") =>
        /\ get_count = 1
        /\ failed => IsError(ret)
        /\ (http.kind = "response" /\ http.status \in 200..299 /\ http.parse = "object") =>
              /\ ret.kind = "return"
              /\ Contains(ret.value, Str(user_id))
              /\ Contains(ret.value, ExpectedStatusText(http))

\* C6 (as stated): one GET per call; a connection error, a timeout or a
\* non-2xx response gives an "ERROR:" string; a 2xx JSON object gives a string
\* with the identifier and the app_status value or "Status Unknown".
C6_Non2xxIsError ==
    StatusResultOk(\/ http.kind \in {"ConnectionError", "Timeout"}
                   \/ http.kind = "response" /\ http.status \notin 200..299)

\* C6 (amended): one GET per call; a connection error, a timeout or a 4xx/5xx
\* response gives an "ERROR:" string; a 2xx JSON object gives a string with
\* the identifier and the app_status value or "Status Unknown".
C6_ErrorStatusIsError ==
    StatusResultOk(\/ http.kind \in {"ConnectionError", "Timeout"}
                   \/ http.kind = "response" /\ http.status \in 400..599)

C6_Witness ==
    /\ tool = "get_user_status" /\ pc = "returned"
    /\ http.kind = "response" /\ http.status = 201 /\ http.parse = "object"
    /\ "app_status" \notin DOMAIN http.obj /\ "message" \in DOMAIN http.obj
    /\ user_id = 0 - 7
    /\ Contains(ret.value, <<"S", "t", "a", "t", "u", "s", " ", "U", "n", "k", "n", "o", "w", "n">>)

\* C7: a lookup of an identifier of the table answers 200 with exactly the
\* fields user_id, app_status and message, user_id being the identifier and
\* app_status the stored status; a lookup of any other identifier answers 404
\* with a detail message containing the identifier.
C7_LookupTotal ==
    lookups > 0 =>
        IF last_request \in {101, 102, 103, 104}
        THEN /\ last_response.status_code = 200
             /\ DOMAIN last_response.obj = {"user_id", "app_status", "message"}
             /\ last_response.obj.user_id = JInt(last_request)
             /\ last_response.obj.app_status = JStr(StartupTable[last_request])
             /\ last_response.obj.message.t = "str"
        ELSE /\ last_response.status_code = 404
             /\ DOMAIN last_response.obj = {"detail"}
             /\ last_response.obj.detail.t = "str"
             /\ Contains(last_response.obj.detail.s, Str(last_request))

C7_Witness ==
    /\ lookups > 0 /\ last_request = 0 - 7
    /\ last_response.status_code = 404

\* C8: after any sequence of lookups the table equals its startup value and
\* all lookups of one identifier have returned the same response.
C8_LookupsIdempotent ==
    /\ mock_user_statuses = StartupTable
    /\ \A id \in UserIds : Cardinality(seen[id]) <= 1

C8_Witness ==
    /\ lookups = 3
    /\ seen[102] # {}
    /\ \A id \in UserIds \ {102} : seen[id] = {}

\* C9: run_agent returns the content of the last message of the last
\* streamed state.
C9_ReturnsFinalTurn ==
    stream_pc = "done" => final_answer = messages[Len(messages)].content

ExpectedComposed(id) ==
    CASE id = 101 -> <<"U", "s", "e", "r", " ", "1", "0", "1", " ", "S", "t", "a", "t", "u", "s", ":", " ", "A", "c", "t", "i", "v", "e">>
      [] id = 102 -> <<"U", "s", "e", "r", " ", "1", "0", "2", " ", "S", "t", "a", "t", "u", "s", ":", " ", "I", "n", "a", "c", "t", "i", "v", "e">>
      [] id = 103 -> <<"U", "s", "e", "r", " ", "1", "0", "3", " ", "S", "t", "a", "t", "u", "s", ":", " ", "P", "e", "n", "d", "i", "n", "g", "_", "A", "p", "p", "r", "o", "v", "a", "l">>
      [] id = 104 -> <<"U", "s", "e", "r", " ", "1", "0", "4", " ", "S", "t", "a", "t", "u", "s", ":", " ", "S", "u", "s", "p", "e", "n", "d", "e", "d">>

\* C10: the status tool run against the mock service returns
\* "User {id} Status: {stored status}" for an identifier of the table and an
\* "ERROR:" string for any other identifier.
C10_ToolAgainstMock ==
    (tool = "get_user_status" /\ pc = "returned") =>
        /\ ret.kind = "return"
        /\ IF user_id \in {101, 102, 103, 104}
           THEN ret.value = ExpectedComposed(user_id)
           ELSE StartsWith(ret.value, ERROR_MARK)

C10_Witness ==
    /\ tool = "get_user_status" /\ pc = "returned"
    /\ user_id = 999 /\ last_request = 999 /\ last_response.status_code = 404
    /\ IsError(ret)

====
